---- MODULE Spec2Model ----
(***************************************************************************)
(* Model of the "Segmentation hands-on" notebook: the UNet module (layer   *)
(* table, forward pass on tensor shapes, parameter count) and the notebook *)
(* cells that drive it (load, training loop, full-volume inference, save). *)
(*                                                                         *)
(* A tensor is represented by its shape <<N, C, H, W>>; the empty tuple    *)
(* stands for "the call raised".  Voxel data is carried only where a claim *)
(* is about data (slice normalisation, soft-max, arg-max, labels).         *)
(***************************************************************************)
EXTENDS Integers, Sequences, FiniteSets, TLC

VARIABLES
    pc,               \* the notebook cell / statement that runs next
    training_volume,  \* array read from data/spleen1_img.nii.gz
    training_label,   \* array read from data/spleen1_label.nii.gz
    unet,             \* the UNet instance (layer table and training flag)
    grads,            \* state of the parameters' .grad buffers
    epoch,            \* loop variable of the outer training loop
    slice_ix,         \* loop variable of the inner training / inference loop
    slc,              \* the normalised intensity slice of the current step
    lbl_tensor,       \* the label tensor of the current step
    pred,             \* result of the last forward pass
    l,                \* result of the last loss computation
    ops,              \* operations performed in the current loop iteration
    visited,          \* slice indices visited in the current epoch
    steps,            \* number of optimizer steps applied so far
    mask3d,           \* the reconstructed label volume
    org_volume,       \* image object re-loaded for its affine
    out_file,         \* content of data/out.nii.gz
    fwd,              \* forward-pass harness: input and full trace of one call
    sm                \* soft-max harness: logits and result

vars == << pc, training_volume, training_label, unet, grads, epoch, slice_ix,
           slc, lbl_tensor, pred, l, ops, visited, steps, mask3d, org_volume,
           out_file, fwd, sm >>

----------------------------------------------------------------------------
(* Bounds of the model and constants of the program *)

MaxDim == 48          \* largest spatial extent tried by the forward harness
MaxDepth == 16        \* largest number of slices of a loaded volume
MaxChannels == 2      \* largest C_in tried by the forward harness
MaxClasses == 3       \* largest C_out tried by the forward harness
MaxLogit == 2         \* logits range over 0..MaxLogit in the soft-max harness
MaxSmDim == 2         \* largest N, H, W of a tensor in the soft-max harness

InitFeatures == 32    \* default init_features of UNet.__init__
NumEpochs == 10       \* range(0,10)
NumTrainSlices == 15  \* range(0,15)

----------------------------------------------------------------------------
(* Tensor shapes *)

Err == << >>

Shape(n, c, h, w) == << n, c, h, w >>

IsErr(x) == x = Err

\* the layer constructors of torch.nn used by the notebook
Conv2d(cin, cout, k, pad, bias) ==
    [kind |-> "Conv2d", cin |-> cin, cout |-> cout, k |-> k, pad |-> pad,
     bias |-> bias]

BatchNorm2d(nf) == [kind |-> "BatchNorm2d", nf |-> nf]

ReLU == [kind |-> "ReLU"]

MaxPool2d(k, s) == [kind |-> "MaxPool2d", k |-> k, s |-> s]

ConvTranspose2d(cin, cout, k, s) ==
    [kind |-> "ConvTranspose2d", cin |-> cin, cout |-> cout, k |-> k, s |-> s]

Softmax(d) == [kind |-> "Softmax", dim |-> d]

\* UNet.unet_block: conv3x3 (no bias), batch norm, relu, twice
unet_block_bias(in_channels, features) ==
    << Conv2d(in_channels, features, 3, 1, TRUE), BatchNorm2d(features), ReLU,
       Conv2d(features, features, 3, 1, TRUE), BatchNorm2d(features), ReLU >>

unet_block(in_channels, features) ==
    << Conv2d(in_channels, features, 3, 1, FALSE), BatchNorm2d(features), ReLU,
       Conv2d(features, features, 3, 1, FALSE), BatchNorm2d(features), ReLU >>

\* self.softmax = nn.Softmax(dim = 1)
softmax_batch_axis == Softmax(0)

softmax_layer == Softmax(1)

\* self.upconvN = nn.ConvTranspose2d(cin, cout, kernel_size=2, stride=2)
upconv_keep_width(cin, cout) == ConvTranspose2d(cin, cin, 2, 2)

upconv(cin, cout) == ConvTranspose2d(cin, cout, 2, 2)

\* UNet.__init__: the layer table; a new nn.Module is in training mode
UNet(in_channels, out_channels, init_features) ==
    LET features == init_features IN
    [ encoder1   |-> unet_block(in_channels, features),
      pool1      |-> MaxPool2d(2, 2),
      encoder2   |-> unet_block(features, features * 2),
      pool2      |-> MaxPool2d(2, 2),
      encoder3   |-> unet_block(features * 2, features * 4),
      pool3      |-> MaxPool2d(2, 2),
      encoder4   |-> unet_block(features * 4, features * 8),
      pool4      |-> MaxPool2d(2, 2),
      bottleneck |-> unet_block(features * 8, features * 16),
      upconv4    |-> upconv(features * 16, features * 8),
      decoder4   |-> unet_block((features * 8) * 2, features * 8),
      upconv3    |-> upconv(features * 8, features * 4),
      decoder3   |-> unet_block((features * 4) * 2, features * 4),
      upconv2    |-> upconv(features * 4, features * 2),
      decoder2   |-> unet_block((features * 2) * 2, features * 2),
      upconv1    |-> upconv(features * 2, features),
      decoder1   |-> unet_block(features * 2, features),
      conv       |-> Conv2d(features, out_channels, 1, 0, TRUE),
      softmax    |-> softmax_layer,
      training   |-> TRUE ]

NoNet == [training |-> FALSE]

----------------------------------------------------------------------------
(* What the layers do to a shape *)

\* F.batch_norm in training mode: _verify_batch_size raises when there is
\* a single value per channel (N*H*W = 1)
batch_norm(layer, x, training) ==
    IF x[2] # layer.nf THEN Err
    ELSE IF training /\ x[1] * x[3] * x[4] = 1 THEN Err
    ELSE x

\* Conv2d, stride 1: the input must have cin channels
conv2d(layer, x) ==
    LET h == x[3] + 2 * layer.pad - layer.k + 1
        w == x[4] + 2 * layer.pad - layer.k + 1
    IN IF x[2] # layer.cin \/ h < 1 \/ w < 1 THEN Err
       ELSE Shape(x[1], layer.cout, h, w)

\* MaxPool2d(kernel_size=2, stride=2): floor mode, an empty output raises
max_pool2d(layer, x) ==
    LET h == IF x[3] < layer.k THEN 0 ELSE (x[3] - layer.k) \div layer.s + 1
        w == IF x[4] < layer.k THEN 0 ELSE (x[4] - layer.k) \div layer.s + 1
    IN IF h < 1 \/ w < 1 THEN Err ELSE Shape(x[1], x[2], h, w)

\* ConvTranspose2d, no padding: (h - 1) * stride + kernel
conv_transpose2d(layer, x) ==
    IF x[2] # layer.cin THEN Err
    ELSE Shape(x[1], layer.cout, (x[3] - 1) * layer.s + layer.k,
               (x[4] - 1) * layer.s + layer.k)

ApplyLayer(layer, x, training) ==
    IF IsErr(x) THEN Err
    ELSE CASE layer.kind = "Conv2d" -> conv2d(layer, x)
           [] layer.kind = "BatchNorm2d" -> batch_norm(layer, x, training)
           [] layer.kind = "ReLU" -> x
           [] layer.kind = "MaxPool2d" -> max_pool2d(layer, x)
           [] layer.kind = "ConvTranspose2d" -> conv_transpose2d(layer, x)
           [] layer.kind = "Softmax" -> x

\* nn.Sequential: the layers in order
RECURSIVE ApplySeq(_, _, _)
ApplySeq(block, x, training) ==
    IF block = << >> THEN x
    ELSE ApplySeq(Tail(block), ApplyLayer(Head(block), x, training), training)

\* torch.cat((a, b), dim=1): every extent but the channel one must agree
cat_cropping(a, b) ==
    IF IsErr(a) \/ IsErr(b) THEN Err
    ELSE Shape(a[1], a[2] + b[2], a[3], a[4])

cat(a, b) ==
    IF IsErr(a) \/ IsErr(b) THEN Err
    ELSE IF a[1] # b[1] \/ a[3] # b[3] \/ a[4] # b[4] THEN Err
    ELSE Shape(a[1], a[2] + b[2], a[3], a[4])

\* one "dec = upconv(..); dec = cat((dec, enc)); dec = decoder(dec)" triple
\* of forward: the up-sampled tensor, the cached one, and the block's output
Expand(up_layer, dec_block, below, skip, training) ==
    LET up == ApplyLayer(up_layer, below, training)
        joined == cat(up, skip)
    IN [up |-> up, skip |-> skip, joined |-> joined,
        out |-> ApplySeq(dec_block, joined, training)]

\* which cached activation each expansion stage concatenates
skip_shifted(stage, enc1, enc2, enc3, enc4) ==
    CASE stage = 4 -> enc3 [] stage = 3 -> enc2
      [] stage = 2 -> enc1 [] stage = 1 -> enc1

skip_of(stage, enc1, enc2, enc3, enc4) ==
    CASE stage = 4 -> enc4 [] stage = 3 -> enc3
      [] stage = 2 -> enc2 [] stage = 1 -> enc1

\* UNet.forward, with every intermediate tensor kept
forward(net, x) ==
    LET t == net.training
        enc1 == ApplySeq(net.encoder1, x, t)
        enc2 == ApplySeq(net.encoder2, ApplyLayer(net.pool1, enc1, t), t)
        enc3 == ApplySeq(net.encoder3, ApplyLayer(net.pool2, enc2, t), t)
        enc4 == ApplySeq(net.encoder4, ApplyLayer(net.pool3, enc3, t), t)
        bottleneck == ApplySeq(net.bottleneck, ApplyLayer(net.pool4, enc4, t), t)
        e4 == Expand(net.upconv4, net.decoder4, bottleneck,
                     skip_of(4, enc1, enc2, enc3, enc4), t)
        e3 == Expand(net.upconv3, net.decoder3, e4.out,
                     skip_of(3, enc1, enc2, enc3, enc4), t)
        e2 == Expand(net.upconv2, net.decoder2, e3.out,
                     skip_of(2, enc1, enc2, enc3, enc4), t)
        e1 == Expand(net.upconv1, net.decoder1, e2.out,
                     skip_of(1, enc1, enc2, enc3, enc4), t)
        out_conv == ApplyLayer(net.conv, e1.out, t)
    IN [ enc |-> << enc1, enc2, enc3, enc4 >>,
         bottleneck |-> bottleneck,
         stage |-> << e1, e2, e3, e4 >>,
         \* the concatenations that were executed, in execution order
         cats |-> SelectSeq(<< 4, 3, 2, 1 >>,
                            LAMBDA i : ~IsErr((<< e1, e2, e3, e4 >>)[i].up)),
         out |-> ApplyLayer(net.softmax, out_conv, t) ]

----------------------------------------------------------------------------
(* Parameters *)

\* element count of the trainable tensors of one layer
numel(layer) ==
    CASE layer.kind = "Conv2d" ->
           layer.cout * layer.cin * layer.k * layer.k
             + (IF layer.bias THEN layer.cout ELSE 0)
      [] layer.kind = "BatchNorm2d" -> 2 * layer.nf
      [] layer.kind = "ConvTranspose2d" ->
           layer.cin * layer.cout * layer.k * layer.k + layer.cout
      [] OTHER -> 0

\* nn.Module.parameters(): the layers in registration order
parameters(net) ==
    net.encoder1 \o << net.pool1 >> \o net.encoder2 \o << net.pool2 >>
      \o net.encoder3 \o << net.pool3 >> \o net.encoder4 \o << net.pool4 >>
      \o net.bottleneck \o << net.upconv4 >> \o net.decoder4
      \o << net.upconv3 >> \o net.decoder3 \o << net.upconv2 >> \o net.decoder2
      \o << net.upconv1 >> \o net.decoder1 \o << net.conv, net.softmax >>

RECURSIVE SumNumel(_)
SumNumel(layers) ==
    IF layers = << >> THEN 0 ELSE numel(Head(layers)) + SumNumel(Tail(layers))

\* sum(p.numel() for p in unet.parameters() if p.requires_grad)
param_count(net) == SumNumel(parameters(net))

----------------------------------------------------------------------------
(* The data files *)

\* Voxel data of a volume file.  In every slice the pixel [0,0] holds one
\* value and all other pixels hold another; content.lo and content.hi choose
\* them, and the second one alternates with the depth index so that
\* neighbouring slices have different maxima.
VoxelAt(content, k) == << content.lo, content.hi + (k % 2) >>

\* Label data: class 0 at pixel [0,0], the other pixels alternate 1, 0 with k
LabelAt(k) == << 0, (k + 1) % 2 >>

MaxNeg == 1           \* voxel values range over -MaxNeg..MaxVoxel
MaxVoxel == 1
MaxVolUnits == 4      \* in-plane extents are 8, 16, .., 8 * MaxVolUnits
MaxScale == 2         \* affine entries range over -MaxScale..MaxScale

Contents == [lo : (0 - MaxNeg)..MaxVoxel, hi : 0..MaxVoxel]

VolDims == {8 * i : i \in 1..MaxVolUnits}

\* a 4x4 voxel-to-world matrix with scale s, shear o and translation t
Affine(s, o, t) ==
    << << s, o, 0, t >>, << 0, s, 0, t >>, << 0, 0, s, 0 >>, << 0, 0, 0, 1 >> >>

Affines == {Affine(s, o, t) : s \in {-1, 1, MaxScale}, o \in {0, 1},
                              t \in {0, 0 - MaxScale}}

Identity == Affine(1, 0, 0)

None == [none |-> TRUE]

Max(a, b) == IF a >= b THEN a ELSE b

\* np.max over a slice
np_max(vals) == Max(vals[1], vals[2])

\* training_volume[:,:,ix].astype(np.single) / np.max(training_volume[:,:,ix])
\* as exact fractions num[i] / den, then unsqueeze(0).unsqueeze(0)
normalize(vol, ix) ==
    [ix |-> ix, num |-> VoxelAt(vol.content, ix),
     den |-> np_max(VoxelAt(vol.content, ix)),
     shape |-> Shape(1, 1, vol.shape[1], vol.shape[2])]

\* the label slice at depth ix as a long tensor of shape (1, H, W)
label_slice_first(lab, ix) ==
    [ix |-> 0, vals |-> LabelAt(0), dtype |-> "long",
     shape |-> << 1, lab.shape[1], lab.shape[2] >>]

label_slice(lab, ix) ==
    [ix |-> ix, vals |-> LabelAt(ix), dtype |-> "long",
     shape |-> << 1, lab.shape[1], lab.shape[2] >>]

\* CrossEntropyLoss on (N, C, H, W) against (N, H, W) class indices: the
\* extents must agree and the target must be integer
cross_entropy_unchecked(p, target) ==
    [pred_ix |-> p.ix, label_ix |-> target.ix, target |-> target.vals,
     extent |-> << p.shape[3], p.shape[4] >>,
     label_extent |-> << target.shape[2], target.shape[3] >>]

cross_entropy(p, target) ==
    IF target.dtype # "long"
       \/ << p.shape[1], p.shape[3], p.shape[4] >> # target.shape
    THEN None
    ELSE [pred_ix |-> p.ix, label_ix |-> target.ix, target |-> target.vals,
          extent |-> << p.shape[3], p.shape[4] >>,
          label_extent |-> << target.shape[2], target.shape[3] >>]

\* optimizer.zero_grad()
zero_grad_skipped(g) == g

zero_grad(g) == "clear"

\* nib.Nifti1Image(dataobj, affine)
Nifti1Image_default(dataobj, affine) == [dataobj |-> dataobj, affine |-> Identity]

Nifti1Image(dataobj, affine) == [dataobj |-> dataobj, affine |-> affine]

\* the range of the full-volume inference loop
infer_range_training(vol) == 0..(NumTrainSlices - 1)

infer_range(vol) == 0..(vol.shape[3] - 1)

----------------------------------------------------------------------------
(* The notebook, cell by cell *)

Idle == [idle |-> TRUE]

Init ==
    /\ pc = "load"
    /\ training_volume = None /\ training_label = None
    /\ unet = NoNet /\ grads = "none"
    /\ epoch = 0 /\ slice_ix = 0
    /\ slc = None /\ lbl_tensor = None /\ pred = None /\ l = None
    /\ ops = << >> /\ visited = << >> /\ steps = 0
    /\ mask3d = None /\ org_volume = None /\ out_file = None
    /\ fwd = Idle /\ sm = Idle

\* training_volume = nib.load(..img..).get_fdata();
\* training_label = nib.load(..label..).get_fdata()
LoadTraining ==
    /\ pc = "load"
    /\ \E h \in VolDims, w \in VolDims, d \in 1..MaxDepth, c \in Contents,
          same \in BOOLEAN :
          /\ training_volume' = [shape |-> << h, w, d >>, content |-> c,
                                 dtype |-> "float64"]
          /\ training_label' = [shape |-> IF same THEN << h, w, d >>
                                          ELSE << w, h, d >>,
                                dtype |-> "float64"]
    /\ pc' = "construct"
    /\ UNCHANGED << unet, grads, epoch, slice_ix, slc, lbl_tensor, pred, l, ops,
                    visited, steps, mask3d, org_volume, out_file, fwd, sm >>

\* unet = UNet(1, 2); loss; optimizer = Adam(..); optimizer.zero_grad()
Construct ==
    /\ pc = "construct"
    /\ unet' = UNet(1, 2, InitFeatures)
    /\ grads' = zero_grad("none")
    /\ pc' = "train_mode"
    /\ UNCHANGED << training_volume, training_label, epoch, slice_ix, slc,
                    lbl_tensor, pred, l, ops, visited, steps, mask3d, org_volume,
                    out_file, fwd, sm >>

\* unet.train(); the two for statements start at epoch 0, slice 0
TrainMode ==
    /\ pc = "train_mode"
    /\ unet' = [unet EXCEPT !.training = TRUE]
    /\ epoch' = 0 /\ slice_ix' = 0 /\ visited' = << >> /\ ops' = << >>
    /\ pc' = "slice"
    /\ UNCHANGED << training_volume, training_label, grads, slc, lbl_tensor,
                    pred, l, steps, mask3d, org_volume, out_file, fwd, sm >>

\* slc = ...; slc_tensor = ...   (an index past the depth raises IndexError)
TrainSlice ==
    /\ pc = "slice"
    /\ visited' = Append(visited, slice_ix)
    /\ IF slice_ix >= training_volume.shape[3]
       THEN /\ pc' = "error" /\ UNCHANGED << slc, ops >>
       ELSE /\ slc' = normalize(training_volume, slice_ix)
            /\ ops' = << "slice" >>
            /\ pc' = "label"
    /\ UNCHANGED << training_volume, training_label, unet, grads, epoch,
                    slice_ix, lbl_tensor, pred, l, steps, mask3d, org_volume,
                    out_file, fwd, sm >>

\* TASK: extract the slice from the label volume into a tensor
TrainLabel ==
    /\ pc = "label"
    /\ IF slice_ix >= training_label.shape[3]
       THEN /\ pc' = "error" /\ UNCHANGED << lbl_tensor, ops >>
       ELSE /\ lbl_tensor' = label_slice(training_label, slice_ix)
            /\ ops' = Append(ops, "label")
            /\ pc' = "zero_grad"
    /\ UNCHANGED << training_volume, training_label, unet, grads, epoch,
                    slice_ix, slc, pred, l, visited, steps, mask3d, org_volume,
                    out_file, fwd, sm >>

\* optimizer.zero_grad()
TrainZeroGrad ==
    /\ pc = "zero_grad"
    /\ grads' = zero_grad(grads)
    /\ ops' = Append(ops, "zero_grad")
    /\ pc' = "forward"
    /\ UNCHANGED << training_volume, training_label, unet, epoch, slice_ix, slc,
                    lbl_tensor, pred, l, visited, steps, mask3d, org_volume,
                    out_file, fwd, sm >>

\* pred = unet(slc_tensor)
TrainForward ==
    /\ pc = "forward"
    /\ LET out == forward(unet, slc.shape).out IN
       IF IsErr(out)
       THEN /\ pc' = "error" /\ UNCHANGED << pred, ops >>
       ELSE /\ pred' = [ix |-> slc.ix, shape |-> out, grads_at_entry |-> grads]
            /\ ops' = Append(ops, "forward")
            /\ pc' = "loss"
    /\ UNCHANGED << training_volume, training_label, unet, grads, epoch,
                    slice_ix, slc, lbl_tensor, l, visited, steps, mask3d,
                    org_volume, out_file, fwd, sm >>

\* l = loss(pred, lbl_tensor)
TrainLoss ==
    /\ pc = "loss"
    /\ LET v == cross_entropy(pred, lbl_tensor) IN
       IF v = None
       THEN /\ pc' = "error" /\ UNCHANGED << l, ops >>
       ELSE /\ l' = v
            /\ ops' = Append(ops, "loss")
            /\ pc' = "backward"
    /\ UNCHANGED << training_volume, training_label, unet, grads, epoch,
                    slice_ix, slc, lbl_tensor, pred, visited, steps, mask3d,
                    org_volume, out_file, fwd, sm >>

\* l.backward()
TrainBackward ==
    /\ pc = "backward"
    /\ grads' = "accumulated"
    /\ ops' = Append(ops, "backward")
    /\ pc' = "step"
    /\ UNCHANGED << training_volume, training_label, unet, epoch, slice_ix, slc,
                    lbl_tensor, pred, l, visited, steps, mask3d, org_volume,
                    out_file, fwd, sm >>

\* optimizer.step(), then the inner for statement advances
TrainStep ==
    /\ pc = "step"
    /\ steps' = steps + 1
    /\ ops' = Append(ops, "step")
    /\ IF slice_ix + 1 < NumTrainSlices
       THEN /\ slice_ix' = slice_ix + 1 /\ pc' = "slice"
       ELSE /\ pc' = "epoch_print" /\ UNCHANGED slice_ix
    /\ UNCHANGED << training_volume, training_label, unet, grads, epoch, slc,
                    lbl_tensor, pred, l, visited, mask3d, org_volume, out_file,
                    fwd, sm >>

\* print(f"Epoch: ..."), then the outer for statement advances
EpochPrint ==
    /\ pc = "epoch_print"
    /\ IF epoch + 1 < NumEpochs
       THEN /\ epoch' = epoch + 1 /\ slice_ix' = 0 /\ visited' = << >>
            /\ pc' = "slice"
       ELSE /\ pc' = "eval_mode" /\ UNCHANGED << epoch, slice_ix, visited >>
    /\ UNCHANGED << training_volume, training_label, unet, grads, slc,
                    lbl_tensor, pred, l, ops, steps, mask3d, org_volume,
                    out_file, fwd, sm >>

\* unet.eval()
EvalMode ==
    /\ pc = "eval_mode"
    /\ unet' = [unet EXCEPT !.training = FALSE]
    /\ pc' = "infer_init"
    /\ UNCHANGED << training_volume, training_label, grads, epoch, slice_ix,
                    slc, lbl_tensor, pred, l, ops, visited, steps, mask3d,
                    org_volume, out_file, fwd, sm >>

\* TASK: an array of the same shape as the original volume, no slice filled
InferInit ==
    /\ pc = "infer_init"
    /\ mask3d' = [shape |-> training_volume.shape,
                  src |-> [k \in 0..(training_volume.shape[3] - 1) |-> -1]]
    /\ slice_ix' = 0
    /\ pc' = "infer"
    /\ UNCHANGED << training_volume, training_label, unet, grads, epoch, slc,
                    lbl_tensor, pred, l, ops, visited, steps, org_volume,
                    out_file, fwd, sm >>

\* TASK: normalise slice k, forward pass, arg-max over the channel axis,
\* store the H x W mask at depth k
InferSlice ==
    /\ pc = "infer"
    /\ slice_ix \in infer_range(training_volume)
    /\ LET s == normalize(training_volume, slice_ix)
           out == forward(unet, s.shape).out
       IN IF IsErr(out) \/ << out[3], out[4] >> # << mask3d.shape[1], mask3d.shape[2] >>
          THEN /\ pc' = "error" /\ UNCHANGED << slc, pred, mask3d, slice_ix >>
          ELSE /\ slc' = s
               /\ pred' = [ix |-> s.ix, shape |-> out, grads_at_entry |-> grads]
               /\ mask3d' = [mask3d EXCEPT !.src[slice_ix] = s.ix]
               /\ slice_ix' = slice_ix + 1
               /\ pc' = "infer"
    /\ UNCHANGED << training_volume, training_label, unet, grads, epoch,
                    lbl_tensor, l, ops, visited, steps, org_volume, out_file,
                    fwd, sm >>

\* the inference loop is exhausted
InferDone ==
    /\ pc = "infer"
    /\ slice_ix \notin infer_range(training_volume)
    /\ pc' = "load_org"
    /\ UNCHANGED << training_volume, training_label, unet, grads, epoch,
                    slice_ix, slc, lbl_tensor, pred, l, ops, visited, steps,
                    mask3d, org_volume, out_file, fwd, sm >>

\* org_volume = nib.load("data/spleen1_img.nii.gz"): the file's affine
LoadOrg ==
    /\ pc = "load_org"
    /\ \E a \in Affines :
          org_volume' = [affine |-> a, shape |-> training_volume.shape]
    /\ pc' = "save"
    /\ UNCHANGED << training_volume, training_label, unet, grads, epoch,
                    slice_ix, slc, lbl_tensor, pred, l, ops, visited, steps,
                    mask3d, out_file, fwd, sm >>

\* img_out = nib.Nifti1Image(mask3d, org_volume.affine); nib.save(img_out, ..)
Save ==
    /\ pc = "save"
    /\ out_file' = Nifti1Image(mask3d, org_volume.affine)
    /\ pc' = "done"
    /\ UNCHANGED << training_volume, training_label, unet, grads, epoch,
                    slice_ix, slc, lbl_tensor, pred, l, ops, visited, steps,
                    mask3d, org_volume, fwd, sm >>

Next ==
    \/ LoadTraining \/ Construct \/ TrainMode
    \/ TrainSlice \/ TrainLabel \/ TrainZeroGrad \/ TrainForward \/ TrainLoss
    \/ TrainBackward \/ TrainStep \/ EpochPrint
    \/ EvalMode \/ InferInit \/ InferSlice \/ InferDone \/ LoadOrg \/ Save

Spec == Init /\ [][Next]_vars

----------------------------------------------------------------------------
(* One call of UNet.forward on an input of any size *)

InitFwd ==
    /\ pc = "fwd_call"
    /\ \E ci \in 1..MaxChannels, co \in 1..MaxClasses, cx \in 1..MaxChannels,
          h \in 1..MaxDim, w \in 1..MaxDim :
          /\ unet = UNet(ci, co, InitFeatures)
          /\ fwd = [x |-> Shape(1, cx, h, w), res |-> None]
    /\ training_volume = None /\ training_label = None /\ grads = "none"
    /\ epoch = 0 /\ slice_ix = 0
    /\ slc = None /\ lbl_tensor = None /\ pred = None /\ l = None
    /\ ops = << >> /\ visited = << >> /\ steps = 0
    /\ mask3d = None /\ org_volume = None /\ out_file = None
    /\ sm = Idle

\* unet.eval() before the call
FwdEval ==
    /\ pc = "fwd_call"
    /\ unet.training
    /\ unet' = [unet EXCEPT !.training = FALSE]
    /\ UNCHANGED << pc, training_volume, training_label, grads, epoch, slice_ix,
                    slc, lbl_tensor, pred, l, ops, visited, steps, mask3d,
                    org_volume, out_file, fwd, sm >>

\* unet(x)
FwdCall ==
    /\ pc = "fwd_call"
    /\ fwd' = [fwd EXCEPT !.res = forward(unet, fwd.x)]
    /\ pc' = "fwd_done"
    /\ UNCHANGED << training_volume, training_label, unet, grads, epoch,
                    slice_ix, slc, lbl_tensor, pred, l, ops, visited, steps,
                    mask3d, org_volume, out_file, sm >>

NextFwd == FwdEval \/ FwdCall

SpecFwd == InitFwd /\ [][NextFwd]_vars

----------------------------------------------------------------------------
(* nn.Softmax on tensor values *)

RECURSIVE Pow2(_)
Pow2(n) == IF n = 0 THEN 1 ELSE 2 * Pow2(n - 1)

RECURSIVE SumTo(_, _)
\* f[1] + ... + f[n]
SumTo(f, n) == IF n = 0 THEN 0 ELSE f[n] + SumTo(f, n - 1)

Indices(shape) ==
    (1..shape[1]) \X (1..shape[2]) \X (1..shape[3]) \X (1..shape[4])

\* softmax along axis layer.dim (0-based): exp(t[i]) / sum_j exp(t[i with
\* axis = j]), kept as the exact fraction num / den.  The exponential is
\* taken to base 2 so that the values stay integral.
softmax(layer, shape, t) ==
    LET axis == layer.dim + 1 IN
    [i \in Indices(shape) |->
        [num |-> Pow2(t[i]),
         den |-> SumTo([j \in 1..shape[axis] |->
                          Pow2(t[[i EXCEPT ![axis] = j]])], shape[axis])]]

\* a tensor of logits: a * n + b * c + d * h + e * w, reduced to 0..MaxLogit
Logits(shape, k) ==
    [i \in Indices(shape) |->
        (k[1] * i[1] + k[2] * i[2] + k[3] * i[3] + k[4] * i[4]) % (MaxLogit + 1)]

InitSoftmax ==
    /\ pc = "softmax"
    /\ \E n \in 1..MaxSmDim, c \in 1..MaxClasses, h \in 1..MaxSmDim,
          w \in 1..MaxSmDim, k \in (0..MaxLogit) \X (0..MaxLogit)
                                     \X (0..MaxLogit) \X (0..MaxLogit) :
          /\ unet = UNet(1, c, InitFeatures)
          /\ sm = [shape |-> Shape(n, c, h, w),
                   out_conv |-> Logits(Shape(n, c, h, w), k), out |-> None]
    /\ training_volume = None /\ training_label = None /\ grads = "none"
    /\ epoch = 0 /\ slice_ix = 0
    /\ slc = None /\ lbl_tensor = None /\ pred = None /\ l = None
    /\ ops = << >> /\ visited = << >> /\ steps = 0
    /\ mask3d = None /\ org_volume = None /\ out_file = None
    /\ fwd = Idle

\* return self.softmax(out_conv)
SoftmaxCall ==
    /\ pc = "softmax"
    /\ sm' = [sm EXCEPT !.out = softmax(unet.softmax, sm.shape, sm.out_conv)]
    /\ pc' = "softmax_done"
    /\ UNCHANGED << training_volume, training_label, unet, grads, epoch,
                    slice_ix, slc, lbl_tensor, pred, l, ops, visited, steps,
                    mask3d, org_volume, out_file, fwd >>

NextSoftmax == SoftmaxCall

SpecSoftmax == InitSoftmax /\ [][NextSoftmax]_vars

----------------------------------------------------------------------------
(* Claims about UNet.forward, checked under SpecFwd *)

FwdDone == pc = "fwd_done"

\* the input has the channel count the network was built for
ChannelsMatch == fwd.x[2] = unet.encoder1[1].cin

Div16(n) == n % 16 = 0

Spatial(x) == << x[3], x[4] >>

DecoderOf(net, i) ==
    CASE i = 4 -> net.decoder4 [] i = 3 -> net.decoder3
      [] i = 2 -> net.decoder2 [] i = 1 -> net.decoder1

PoolOf(net, i) ==
    CASE i = 4 -> net.pool4 [] i = 3 -> net.pool3
      [] i = 2 -> net.pool2 [] i = 1 -> net.pool1

\* C1: for every input (1, C_in, H, W) with H and W positive multiples of 16,
\* forward returns a tensor of shape (1, C_out, H, W).
C1_OutputShape ==
    (FwdDone /\ ChannelsMatch /\ Div16(fwd.x[3]) /\ Div16(fwd.x[4]))
        => fwd.res.out = Shape(1, unet.conv.cout, fwd.x[3], fwd.x[4])

IsPrefix(a, b) == Len(a) <= Len(b) /\ a = SubSeq(b, 1, Len(a))

\* C10: within one forward pass the cached activations of the contracting
\* stages are consumed in the order 4, 3, 2, 1, each at most once and all four
\* in a pass that returns; stage i concatenates the activation cached by
\* contracting stage i, taken before its pooling; the up-sampled and the cached
\* tensor both have F * 2^(i-1) channels, their sum is the declared input width
\* of decoder block i, and for H, W multiples of 16 their spatial sizes agree.
C10_SkipPairing ==
    FwdDone =>
      /\ IsPrefix(fwd.res.cats, << 4, 3, 2, 1 >>)
      /\ ~IsErr(fwd.res.out) => fwd.res.cats = << 4, 3, 2, 1 >>
      /\ \A n \in 1..Len(fwd.res.cats) :
           LET i == fwd.res.cats[n]
               st == fwd.res.stage[i]
           IN /\ st.skip = fwd.res.enc[i]
              /\ Spatial(st.skip) = << fwd.x[3] \div Pow2(i - 1),
                                       fwd.x[4] \div Pow2(i - 1) >>
              /\ st.up[2] = InitFeatures * Pow2(i - 1)
              /\ st.skip[2] = InitFeatures * Pow2(i - 1)
              /\ st.up[2] + st.skip[2] = DecoderOf(unet, i)[1].cin
              /\ DecoderOf(unet, i)[1].cin = 2 * InitFeatures * Pow2(i - 1)
              /\ (Div16(fwd.x[3]) /\ Div16(fwd.x[4]))
                   => /\ Spatial(st.up) = Spatial(st.skip)
                      /\ st.joined = Shape(1, DecoderOf(unet, i)[1].cin,
                                           st.skip[3], st.skip[4])

\* a pass that returned after all four concatenations
C10_Witness ==
    /\ FwdDone /\ ~IsErr(fwd.res.out)
    /\ fwd.res.cats = << 4, 3, 2, 1 >>
    /\ \A i \in 1..4 : fwd.res.stage[i].skip = fwd.res.enc[i]

----------------------------------------------------------------------------
(* Claims about the soft-max, checked under SpecSoftmax *)

RECURSIVE FracSum(_, _)
\* f[1].num / f[1].den + ... + f[n].num / f[n].den as a fraction << a, b >>
FracSum(f, n) ==
    IF n = 0 THEN << 0, 1 >>
    ELSE LET q == FracSum(f, n - 1)
         IN << q[1] * f[n].den + f[n].num * q[2], q[2] * f[n].den >>

\* C7: at every pixel of the output the C_out channel values are
\* non-negative and sum to 1 (the soft-max runs over the channel axis).
C7_ChannelDistribution ==
    pc = "softmax_done" =>
      \A n \in 1..sm.shape[1], h \in 1..sm.shape[3], w \in 1..sm.shape[4] :
         LET px == [c \in 1..sm.shape[2] |-> sm.out[<< n, c, h, w >>]]
             total == FracSum(px, sm.shape[2])
         IN /\ \A c \in 1..sm.shape[2] : px[c].num >= 0 /\ px[c].den > 0
            /\ total[1] = total[2]

\* a batch of two, several classes, and pixels whose logits differ
C7_Witness ==
    /\ pc = "softmax_done"
    /\ sm.shape[1] = 2 /\ sm.shape[2] >= 2
    /\ \E i \in Indices(sm.shape), j \in Indices(sm.shape) :
          /\ i[1] # j[1] /\ i[2] = j[2] /\ i[3] = j[3] /\ i[4] = j[4]
          /\ sm.out_conv[i] # sm.out_conv[j]
    /\ \E i \in Indices(sm.shape) : sm.out[i].num # sm.out[i].den

----------------------------------------------------------------------------
(* torch.argmax on the result of a forward pass *)

\* the shape left when one axis (1-based) is reduced away
DropAxis(shape, axis) ==
    [k \in 1..(Len(shape) - 1) |-> IF k < axis THEN shape[k] ELSE shape[k + 1]]

\* the index of the full tensor that has j on the reduced axis
WithAxis(i, axis, j) ==
    [k \in 1..(Len(i) + 1) |->
        IF k < axis THEN i[k] ELSE IF k = axis THEN j ELSE i[k - 1]]

Indices3(shape) == (1..shape[1]) \X (1..shape[2]) \X (1..shape[3])

\* a >= b for fractions with positive denominators
FracGeq(a, b) == a.num * b.den >= b.num * a.den

\* torch.argmax(t, dim): along axis dim (0-based) the 0-based position of a
\* maximal entry (the first one), the axis itself removed from the result
argmax(t, shape, dim) ==
    LET axis == dim + 1
        n == shape[axis]
        rest == DropAxis(shape, axis)
    IN [shape |-> rest,
        vals |-> [i \in Indices3(rest) |->
                    CHOOSE j \in 0..(n - 1) :
                       /\ \A k \in 0..(n - 1) :
                             FracGeq(t[WithAxis(i, axis, j + 1)],
                                     t[WithAxis(i, axis, k + 1)])
                       /\ \A k \in 0..(j - 1) :
                             ~FracGeq(t[WithAxis(i, axis, k + 1)],
                                      t[WithAxis(i, axis, j + 1)])]]

\* pred = unet(slc_tensor), as left by the last forward pass, goes into
\* mask = torch.argmax(pred, dim=0)
ArgmaxCall ==
    /\ pc = "softmax_done"
    /\ sm' = [shape |-> sm.shape, out_conv |-> sm.out_conv, out |-> sm.out,
              mask |-> argmax(sm.out, sm.shape, 0)]
    /\ pc' = "mask_done"
    /\ UNCHANGED << training_volume, training_label, unet, grads, epoch,
                    slice_ix, slc, lbl_tensor, pred, l, ops, visited, steps,
                    mask3d, org_volume, out_file, fwd >>

NextMask == SoftmaxCall \/ ArgmaxCall

SpecMask == InitSoftmax /\ [][NextMask]_vars

\* C11: the mask derived from a prediction (1, C_out, H, W) is the arg-max
\* across the channel axis: a 2D array of shape H x W whose value at each
\* pixel is a class index in 0..C_out-1 of a channel that is maximal there.
C11_MaskIsChannelArgmax ==
    (pc = "mask_done" /\ sm.shape[1] = 1) =>
      /\ sm.mask.shape = << sm.shape[3], sm.shape[4] >>
      /\ \A h \in 1..sm.shape[3], w \in 1..sm.shape[4] :
            /\ sm.mask.vals[<< h, w >>] \in 0..(sm.shape[2] - 1)
            /\ \A c \in 1..sm.shape[2] :
                  FracGeq(sm.out[<< 1, sm.mask.vals[<< h, w >>] + 1, h, w >>],
                          sm.out[<< 1, c, h, w >>])

----------------------------------------------------------------------------
(* Claims about the notebook, checked under Spec *)

IterationOps ==
    << "slice", "label", "zero_grad", "forward", "loss", "backward", "step" >>

InIteration == pc \in {"label", "zero_grad", "forward", "loss", "backward", "step"}

InTraining == InIteration \/ pc \in {"slice", "epoch_print"}

AfterTraining ==
    pc \in {"eval_mode", "infer_init", "infer", "load_org", "save", "done"}

Ascending(n) == [i \in 1..n |-> i - 1]

\* C2: the affine attached to the saved label volume equals, entry for
\* entry, the affine read from the intensity volume file.
C2_AffineCopied ==
    pc = "done" =>
      /\ out_file.affine \in Affines
      /\ \A i \in 1..4, j \in 1..4 :
            out_file.affine[i][j] = org_volume.affine[i][j]

\* a save whose source affine has shear, translation and non-unit scale
C2_Witness ==
    /\ pc = "done"
    /\ org_volume.affine = Affine(MaxScale, 1, 0 - MaxScale)
    /\ out_file.affine # Identity

\* C3: when the save step runs, mask3d has the shape of the intensity volume
\* and every depth index 0..D-1 holds the prediction computed from the
\* intensity slice at that index.
C3_MaskComplete ==
    pc \in {"save", "done"} =>
      /\ mask3d.shape = training_volume.shape
      /\ DOMAIN mask3d.src = 0..(training_volume.shape[3] - 1)
      /\ \A k \in DOMAIN mask3d.src : mask3d.src[k] = k
      /\ pc = "done" => out_file.dataobj = mask3d

\* a saved volume deeper than the training sub-range
C3_Witness ==
    /\ pc = "done"
    /\ training_volume.shape[3] > NumTrainSlices
    /\ mask3d.src[training_volume.shape[3] - 1] = training_volume.shape[3] - 1
    /\ out_file.dataobj.shape = training_volume.shape

\* C4: every epoch visits the slices 0..14 in ascending order, once each;
\* each visit runs zero_grad, forward, loss, backward, step in this order;
\* gradients are clear at every forward pass, a step follows the backward pass
\* of its own slice, and E epochs apply 15 * E steps.
C4_TrainingOrder ==
    /\ InTraining =>
         /\ epoch \in 0..(NumEpochs - 1)
         /\ visited = Ascending(Len(visited))
         /\ Len(visited) <= NumTrainSlices
         /\ steps = NumTrainSlices * epoch
                      + (IF InIteration THEN Len(visited) - 1 ELSE Len(visited))
    /\ InIteration =>
         /\ visited[Len(visited)] = slice_ix
         /\ IsPrefix(ops, IterationOps)
         /\ ops # << >> /\ IterationOps[Len(ops) + 1] = pc
    /\ pc = "forward" => grads = "clear"
    /\ pc \in {"loss", "backward", "step"} =>
         pred.ix = slice_ix /\ pred.grads_at_entry = "clear"
    /\ pc = "step" => grads = "accumulated" /\ l.pred_ix = slice_ix
    /\ pc \in {"slice", "epoch_print"} /\ steps > 0 => ops = IterationOps
    /\ pc = "epoch_print" =>
         /\ visited = Ascending(NumTrainSlices)
         /\ steps = NumTrainSlices * (epoch + 1)
    /\ AfterTraining => steps = NumTrainSlices * NumEpochs

\* the last step of the last epoch has been applied
C4_Witness ==
    /\ pc = "eval_mode"
    /\ epoch = NumEpochs - 1 /\ slice_ix = NumTrainSlices - 1
    /\ steps = NumTrainSlices * NumEpochs
    /\ ops = IterationOps

\* C5: the loss of step (epoch, slice_ix) is computed against the label
\* slice of depth slice_ix, as integer class indices with the file's values
\* and with the H x W extent of the intensity slice.
C5_LabelOfSameSlice ==
    /\ pc \in {"zero_grad", "forward", "loss"} => lbl_tensor.ix = slice_ix
    /\ pc \in {"backward", "step"} =>
         /\ l.label_ix = slice_ix /\ l.pred_ix = slice_ix
         /\ l.target = LabelAt(slice_ix)
         /\ lbl_tensor.dtype = "long"
         /\ l.label_extent = l.extent
         /\ l.extent = << training_volume.shape[1], training_volume.shape[2] >>

\* a loss computed late in the run, on a slice that is not the first
C5_Witness ==
    /\ pc = "backward" /\ epoch > 0 /\ slice_ix > 0
    /\ l.label_ix = slice_ix
    /\ l.target # LabelAt(0)

\* C6: UNet(1, 2, 32) has 7,762,498 trainable parameters, whatever the
\* input size and however many training steps have run.
C6_ParamCount ==
    unet # NoNet => param_count(unet) = 7762498

\* the count after training steps on a volume
C6_Witness ==
    /\ steps > NumTrainSlices
    /\ unet.encoder1[1].cin = 1 /\ unet.conv.cout = 2
    /\ param_count(unet) = 7762498

\* a / b lies in [0, 1]; a division by zero gives inf or nan, which does not
InUnit(a, b) ==
    /\ b # 0
    /\ b > 0 => (0 <= a /\ a <= b)
    /\ b < 0 => (b <= a /\ a <= 0)

\* C9: every slice presented to the network has been divided by its own
\* maximum, and all of its values lie in [0, 1].
C9_NormalizedRange ==
    InIteration =>
      /\ slc.ix = slice_ix
      /\ slc.den = np_max(VoxelAt(training_volume.content, slice_ix))
      /\ \A i \in 1..2 : InUnit(slc.num[i], slc.den)

====
